---- MODULE Spec2Model ----
(***************************************************************************)
(* A model of the ME-AI dashboard backend: the POST /chat handler with its *)
(* in-memory session map, the POST /embed-token handlers and loadDataset.  *)
(*                                                                         *)
(* JavaScript strings are modelled as sequences of symbols, so that string *)
(* concatenation is sequence concatenation.  A history array is an object  *)
(* on a heap: requests hold REFERENCES to arrays, as the code does.        *)
(***************************************************************************)
EXTENDS Integers, Sequences, FiniteSets, TLC

\* ------------------------------------------------------------------ bounds
NumReqs == 3      \* concurrent POST /chat requests of SpecRace
RaceChunks == 1   \* chunks the provider emits, over all streams of a SpecRace run
StreamReqs == 1   \* POST /chat requests of Spec
MaxChunks == 2    \* chunks the provider emits, over all streams of a Spec run
EmbedReqs == 2    \* POST /embed-token requests of SpecEmbed
MaxRows == 3      \* rows of the parsed CSV of SpecLoad
SharedReqs == 4   \* concurrent POST /chat requests of SpecShared

Reqs == 1..SharedReqs
Sids == {"s1", "s2"}
NoObj == 0        \* sessions.get(sessionId) === undefined

\* ------------------------------------------------------- JavaScript values
Undefined == [type |-> "undefined", val |-> <<"undefined">>]
EmptyStr == [type |-> "string", val |-> <<>>]
JsStr(s) == [type |-> "string", val |-> s]
Zero == [type |-> "number", val |-> <<"0">>]
FortyTwo == [type |-> "number", val |-> <<"42">>]

\* req.body.message, as express.json() may deliver it
Messages == {Undefined, EmptyStr, JsStr(<<"hi">>), Zero, FortyTwo}

\* v !== undefined, a weaker test than truthiness
TruthyDefined(v) == v.type # "undefined"
\* !!v
Truthy(v) ==
    CASE v.type = "undefined" -> FALSE
      [] v.type = "string" -> v.val # <<>>
      [] v.type = "number" -> v.val # <<"0">>
      [] OTHER -> TRUE

TypeOf(v) == v.type

\* ------------------------------------------------------------- the provider
NoTool == [name |-> "none", arguments |-> "none"]
SearchCall(a) == [name |-> "search", arguments |-> a]
\* toolCall.function.arguments: complete, cut short (the provider streams the
\* arguments in pieces), the JSON literal null, absent/empty, an empty query
ArgsOk == "{\"query\":\"q\"}"
ArgsCut == "{\"que"
ArgsNull == "null"
ArgsNone == ""
ArgsEmptyQuery == "{\"query\":\"\"}"

TextChunk(t) == [token |-> t, tool |-> NoTool]
Chunks ==
    {TextChunk(t) : t \in {<<>>, <<"a">>, <<"b">>}}
    \cup {[token |-> t, tool |-> SearchCall(a)] :
             t \in {<<>>, <<"a">>}, a \in {ArgsOk, ArgsCut}}
    \cup {[token |-> <<>>, tool |-> SearchCall(a)] :
             a \in {ArgsNull, ArgsNone, ArgsEmptyQuery}}
    \cup {[token |-> <<>>, tool |-> [name |-> "other", arguments |-> ArgsOk]]}
\* the inputs of SpecRace
RaceChunkSet == {[token |-> <<"a">>, tool |-> SearchCall(ArgsOk)]}
RaceMessages == {EmptyStr, JsStr(<<"hi">>)}

\* a "search" invocation whose arguments do not parse to an object
MalformedSearch(c) ==
    c.tool.name = "search" /\ c.tool.arguments \in {ArgsCut, ArgsNull}

\* followUp.choices[0].message.content
Finals == {<<"f">>}

\* a parser that recovers the query from arguments cut short
ParseArgsLenient(a) ==
    CASE a = ArgsOk -> "q"
      [] a = ArgsCut -> "q"
      [] OTHER -> ""
\* const args = JSON.parse(toolCall.function.arguments || "{}"); q = args.query
\* "throw": JSON.parse throws, or args is null and args.query throws
ParseArgs(a) ==
    CASE a = ArgsOk -> "q"
      [] a = ArgsCut -> "throw"
      [] a = ArgsNull -> "throw"
      [] a = ArgsNone -> ""
      [] a = ArgsEmptyQuery -> ""
      [] OTHER -> "throw"

NN == <<"\n\n">>
Apology == <<"\n\n", "(Sorry, I couldn't fetch live updates right now.)", "\n">>
Marker == <<"\n\n", "[Error: Chat stream failed]">>
MissingMessage == "Missing 'message'."
InvalidMessage == "Missing or invalid 'message'."
StreamFailed == "Streaming chat failed."
OutOfScope == "reply"

\* ---------------------------------------------------------------- the state
VARIABLES
    variant,      \* which /chat handler the process runs
    sessions,     \* the Map: session id -> reference to a history array
    heap,         \* history arrays by reference
    nChunks,      \* chunks emitted so far, over all streams
    pc,           \* where each request's handler is suspended
    message,      \* req.body.message
    sessionId,    \* req.body.sessionId
    history,      \* the handler's local `history` (a reference)
    prompt,       \* messages of the streaming completion request
    before,       \* requests that had completed normally when this one arrived
    buffer,       \* the handler's local `buffer`
    emitted,      \* the non-empty text tokens the provider has emitted on this stream
    malformed,    \* the "search" invocations with unparsable arguments it has emitted
    query,        \* q of the tool invocation in progress
    providerCalls, searchCalls, followUpCalls,
    status, headersSent, written, json, ended,   \* res
    exit          \* how the handler finished

chatVars == <<variant, sessions, heap, nChunks, pc, message, sessionId, history,
              prompt, before, buffer, emitted, malformed, query, providerCalls, searchCalls,
              followUpCalls, status, headersSent, written, json, ended, exit>>

VARIABLES
    embedVariant, \* which /embed-token handler the process runs
    epc,          \* where each /embed-token request is
    authToken,    \* body.authToken
    upstream,     \* the BI service's answer to the request's fetch
    fetchCalls,   \* outbound calls made for the request
    eStatus, eBody    \* the response to the caller

embedVars == <<embedVariant, epc, authToken, upstream, fetchCalls, eStatus, eBody>>

VARIABLES
    lpc,              \* loadDataset: "parse", "loaded" or "failed"
    parsed,           \* the rows csv-parse returns
    dataset,          \* let dataset
    fullDatasetDump   \* let fullDatasetDump

loadVars == <<lpc, parsed, dataset, fullDatasetDump>>

vars == <<chatVars, embedVars, loadVars>>

Variants == {"first", "keyword", "session"}

RECURSIVE Concat(_)
Concat(frags) == IF frags = <<>> THEN <<>> ELSE Head(frags) \o Concat(Tail(frags))

SystemTurn == [role |-> "system", content |-> JsStr(<<"systemPrompt">>), req |-> 0]
\* `Here is the full dataset:\n${fullDatasetDump}\n\nUser: ${message}`
PromptTurn(r, m) ==
    [role |-> "user",
     content |-> JsStr(<<"Here is the full dataset:", "User: ">> \o m.val),
     req |-> r]
\* a reply pushed under the role of the message
AssistantTurnAsUser(r) == [role |-> "user", content |-> JsStr(buffer[r]), req |-> r]
UserTurn(r) == [role |-> "user", content |-> message[r], req |-> r]
AssistantTurn(r) == [role |-> "assistant", content |-> JsStr(buffer[r]), req |-> r]

ChatInit ==
    /\ variant \in Variants
    /\ sessions = [s \in Sids |-> NoObj]
    /\ heap = [o \in Reqs |-> <<>>]
    /\ nChunks = 0
    /\ pc = [r \in Reqs |-> "idle"]
    /\ message = [r \in Reqs |-> Undefined]
    /\ sessionId = [r \in Reqs |-> "s1"]
    /\ history = [r \in Reqs |-> NoObj]
    /\ prompt = [r \in Reqs |-> <<>>]
    /\ before = [r \in Reqs |-> {}]
    /\ buffer = [r \in Reqs |-> <<>>]
    /\ emitted = [r \in Reqs |-> <<>>]
    /\ malformed = [r \in Reqs |-> 0]
    /\ query = [r \in Reqs |-> ""]
    /\ providerCalls = [r \in Reqs |-> 0]
    /\ searchCalls = [r \in Reqs |-> 0]
    /\ followUpCalls = [r \in Reqs |-> 0]
    /\ status = [r \in Reqs |-> 200]
    /\ headersSent = [r \in Reqs |-> FALSE]
    /\ written = [r \in Reqs |-> <<>>]
    /\ json = [r \in Reqs |-> "none"]
    /\ ended = [r \in Reqs |-> FALSE]
    /\ exit = [r \in Reqs |-> "none"]

\* ------------------------------------------------------------ POST /chat
\* const history = sessions.get(sessionId) || [];   a fresh array made by
\* request r is the heap object r
LookupHistory(r, s) == IF sessions[s] # NoObj THEN sessions[s] ELSE r

\* an append that looks the session up again when it saves
SaveTargetReread(r) ==
    IF sessions[sessionId[r]] # NoObj THEN sessions[sessionId[r]] ELSE history[r]
\* the array that history.push(...) mutates and sessions.set(...) stores
SaveTarget(r) == history[r]

\* the handler's validation of req.body.message
Rejects(v, m) ==
    IF v = "session" THEN ~Truthy(m) ELSE ~Truthy(m) \/ TypeOf(m) # "string"

RejectText(v) == IF v = "session" THEN MissingMessage ELSE InvalidMessage

\* headers flushed at once, as res.flushHeaders() would
AfterSetHeaderSent(sent) == TRUE
\* res.setHeader(...) three times: the headers are staged, nothing is sent
AfterSetHeader(sent) == sent

\* The handler up to its first await: validation, history lookup, setHeader,
\* and the call of openai.chat.completions.create with the assembled messages.
\* relevant: the keyword variant's allow-list and row filter both let it pass.
ChatReceive(r, m, s, relevant) ==
    /\ UNCHANGED <<embedVars, loadVars>>
    /\ pc[r] = "idle"
    /\ IF r = 1 THEN TRUE ELSE pc[r - 1] # "idle"
    /\ variant # "session" => s = "s1"
    /\ variant # "keyword" => relevant
    /\ message' = [message EXCEPT ![r] = m]
    /\ sessionId' = [sessionId EXCEPT ![r] = s]
    /\ before' = [before EXCEPT ![r] = {x \in Reqs : exit[x] = "normal"}]
    /\ IF Rejects(variant, m)
       THEN /\ status' = [status EXCEPT ![r] = 400]
            /\ json' = [json EXCEPT ![r] = RejectText(variant)]
            /\ headersSent' = [headersSent EXCEPT ![r] = TRUE]
            /\ ended' = [ended EXCEPT ![r] = TRUE]
            /\ exit' = [exit EXCEPT ![r] = "reject"]
            /\ pc' = [pc EXCEPT ![r] = "done"]
            /\ UNCHANGED <<history, prompt, providerCalls>>
       ELSE IF variant = "keyword" /\ ~relevant
       THEN /\ json' = [json EXCEPT ![r] = OutOfScope]
            /\ headersSent' = [headersSent EXCEPT ![r] = TRUE]
            /\ ended' = [ended EXCEPT ![r] = TRUE]
            /\ exit' = [exit EXCEPT ![r] = "reply"]
            /\ pc' = [pc EXCEPT ![r] = "done"]
            /\ UNCHANGED <<status, history, prompt, providerCalls>>
       ELSE /\ history' = [history EXCEPT ![r] =
                              IF variant = "session" THEN LookupHistory(r, s) ELSE NoObj]
            /\ headersSent' = [headersSent EXCEPT ![r] = AfterSetHeader(@)]
            /\ prompt' = [prompt EXCEPT ![r] =
                             <<SystemTurn>>
                             \o (IF variant = "session"
                                 THEN heap[LookupHistory(r, s)] ELSE <<>>)
                             \o <<PromptTurn(r, m)>>]
            /\ providerCalls' = [providerCalls EXCEPT ![r] = @ + 1]
            /\ pc' = [pc EXCEPT ![r] = "awaitCreate"]
            /\ UNCHANGED <<status, json, ended, exit>>
    /\ UNCHANGED <<variant, sessions, heap, nChunks, buffer, emitted, malformed, query,
                   searchCalls, followUpCalls, written>>

\* await openai.chat.completions.create(...) resolves with the stream
CreateResolve(r) ==
    /\ UNCHANGED <<embedVars, loadVars>>
    /\ pc[r] = "awaitCreate"
    /\ pc' = [pc EXCEPT ![r] = "streaming"]
    /\ UNCHANGED <<variant, sessions, heap, nChunks, message, sessionId, history,
                   prompt, before, buffer, emitted, malformed, query, providerCalls,
                   searchCalls, followUpCalls, status, headersSent, written,
                   json, ended, exit>>

\* a catch block that answers res.status(500).json(...) whatever was sent: the
\* call throws once the headers are out and the response is left open
CatchAlwaysJson(r) ==
    /\ pc' = [pc EXCEPT ![r] = "done"]
    /\ IF ~headersSent[r]
       THEN /\ status' = [status EXCEPT ![r] = 500]
            /\ json' = [json EXCEPT ![r] = StreamFailed]
            /\ headersSent' = [headersSent EXCEPT ![r] = TRUE]
            /\ ended' = [ended EXCEPT ![r] = TRUE]
            /\ exit' = [exit EXCEPT ![r] = "catch"]
            /\ UNCHANGED written
       ELSE /\ exit' = [exit EXCEPT ![r] = "unhandled"]
            /\ UNCHANGED <<status, json, headersSent, ended, written>>

\* The catch block of the handler.  The session variant chooses by
\* res.headersSent; the first variant always calls res.status(500).json, which
\* throws once the headers are out; the keyword variant has no catch at all.
Catch(r) ==
    /\ pc' = [pc EXCEPT ![r] = "done"]
    /\ IF variant = "session" \/ (variant = "first" /\ ~headersSent[r])
       THEN IF ~headersSent[r]
            THEN /\ status' = [status EXCEPT ![r] = 500]
                 /\ json' = [json EXCEPT ![r] = StreamFailed]
                 /\ headersSent' = [headersSent EXCEPT ![r] = TRUE]
                 /\ ended' = [ended EXCEPT ![r] = TRUE]
                 /\ exit' = [exit EXCEPT ![r] = "catch"]
                 /\ UNCHANGED written
            ELSE /\ written' = [written EXCEPT ![r] = Append(@, Marker)]
                 /\ ended' = [ended EXCEPT ![r] = TRUE]
                 /\ exit' = [exit EXCEPT ![r] = "catch"]
                 /\ UNCHANGED <<status, json, headersSent>>
       ELSE /\ exit' = [exit EXCEPT ![r] = "unhandled"]
            /\ UNCHANGED <<status, json, headersSent, ended, written>>

\* await openai.chat.completions.create(...) rejects
CreateReject(r) ==
    /\ UNCHANGED <<embedVars, loadVars>>
    /\ pc[r] = "awaitCreate"
    /\ Catch(r)
    /\ UNCHANGED <<variant, sessions, heap, nChunks, message, sessionId, history,
                   prompt, before, buffer, emitted, malformed, query, providerCalls,
                   searchCalls, followUpCalls>>

\* One iteration of `for await (const chunk of ...)`, up to its first await.
StreamChunk(r, c) ==
    /\ UNCHANGED <<embedVars, loadVars>>
    /\ pc[r] = "streaming"
    /\ nChunks' = nChunks + 1
    /\ emitted' = [emitted EXCEPT ![r] = IF c.token = <<>> THEN @ ELSE Append(@, c.token)]
    /\ malformed' = [malformed EXCEPT ![r] = IF MalformedSearch(c) THEN @ + 1 ELSE @]
    /\ IF variant = "session"
       THEN LET q == IF c.tool.name = "search"
                     THEN ParseArgs(c.tool.arguments) ELSE ""
            IN  /\ IF c.token # <<>>
                   THEN /\ buffer' = [buffer EXCEPT ![r] = @ \o c.token]
                        /\ written' = [written EXCEPT ![r] = Append(@, c.token)]
                        /\ headersSent' = [headersSent EXCEPT ![r] = TRUE]
                   ELSE UNCHANGED <<buffer, written, headersSent>>
                /\ IF q \notin {"throw", ""}
                   THEN /\ query' = [query EXCEPT ![r] = q]
                        /\ searchCalls' = [searchCalls EXCEPT ![r] = @ + 1]
                        /\ pc' = [pc EXCEPT ![r] = "awaitSearch"]
                   ELSE UNCHANGED <<query, searchCalls, pc>>
       ELSE /\ written' = [written EXCEPT ![r] = Append(@, c.token)]
            /\ headersSent' = [headersSent EXCEPT ![r] = TRUE]
            /\ UNCHANGED <<buffer, query, searchCalls, pc>>
    /\ UNCHANGED <<variant, sessions, heap, message, sessionId, history, prompt,
                   before, providerCalls, followUpCalls, status, json, ended, exit>>

\* await google.search(q) resolves; the summary is built and the follow-up
\* completion is requested
SearchOk(r) ==
    /\ UNCHANGED <<embedVars, loadVars>>
    /\ pc[r] = "awaitSearch"
    /\ followUpCalls' = [followUpCalls EXCEPT ![r] = @ + 1]
    /\ pc' = [pc EXCEPT ![r] = "awaitFollowUp"]
    /\ UNCHANGED <<variant, sessions, heap, nChunks, message, sessionId, history,
                   prompt, before, buffer, emitted, malformed, query, providerCalls,
                   searchCalls, status, headersSent, written, json, ended, exit>>

\* an inner catch that rethrows: the failure reaches the handler's catch block
WebSearchRethrown(r) ==
    /\ UNCHANGED <<embedVars, loadVars>>
    /\ Catch(r)
    /\ UNCHANGED <<variant, sessions, heap, nChunks, message, sessionId, history,
                   prompt, before, buffer, emitted, malformed, query, providerCalls,
                   searchCalls, followUpCalls>>
\* the inner catch: res.write of the apology (buffer is left alone)
WebSearchFailed(r) ==
    /\ UNCHANGED <<embedVars, loadVars>>
    /\ written' = [written EXCEPT ![r] = Append(@, Apology)]
    /\ headersSent' = [headersSent EXCEPT ![r] = TRUE]
    /\ pc' = [pc EXCEPT ![r] = "streaming"]
    /\ UNCHANGED <<variant, sessions, heap, nChunks, message, sessionId, history,
                   prompt, before, buffer, emitted, malformed, query, providerCalls,
                   searchCalls, followUpCalls, status, json, ended, exit>>

\* google.search rejects, or its result has no usable .results
SearchFail(r) ==
    /\ pc[r] = "awaitSearch"
    /\ WebSearchFailed(r)

\* the follow-up completion resolves with content f
FollowUpOk(r, f) ==
    /\ UNCHANGED <<embedVars, loadVars>>
    /\ pc[r] = "awaitFollowUp"
    /\ buffer' = [buffer EXCEPT ![r] = @ \o NN \o f]
    /\ written' = [written EXCEPT ![r] = Append(@, NN \o f)]
    /\ headersSent' = [headersSent EXCEPT ![r] = TRUE]
    /\ pc' = [pc EXCEPT ![r] = "streaming"]
    /\ UNCHANGED <<variant, sessions, heap, nChunks, message, sessionId, history,
                   prompt, before, emitted, malformed, query, providerCalls, searchCalls,
                   followUpCalls, status, json, ended, exit>>

FollowUpFail(r) ==
    /\ pc[r] = "awaitFollowUp"
    /\ WebSearchFailed(r)

\* The stream ends: save the short-term context and end the response.
StreamEnd(r) ==
    /\ UNCHANGED <<embedVars, loadVars>>
    /\ pc[r] = "streaming"
    /\ IF variant = "session"
       THEN /\ heap' = [heap EXCEPT ![SaveTarget(r)] =
                           @ \o <<UserTurn(r), AssistantTurn(r)>>]
            /\ sessions' = [sessions EXCEPT ![sessionId[r]] = SaveTarget(r)]
       ELSE UNCHANGED <<heap, sessions>>
    /\ ended' = [ended EXCEPT ![r] = TRUE]
    /\ headersSent' = [headersSent EXCEPT ![r] = TRUE]
    /\ exit' = [exit EXCEPT ![r] = "normal"]
    /\ pc' = [pc EXCEPT ![r] = "done"]
    /\ UNCHANGED <<variant, nChunks, message, sessionId, history, prompt, before,
                   buffer, emitted, malformed, query, providerCalls, searchCalls,
                   followUpCalls, status, written, json>>

\* a catch block that records the partial exchange before it answers
StreamErrorSaves(r) ==
    /\ UNCHANGED <<embedVars, loadVars>>
    /\ pc[r] = "streaming"
    /\ Catch(r)
    /\ IF variant = "session"
       THEN /\ heap' = [heap EXCEPT ![SaveTarget(r)] =
                           @ \o <<UserTurn(r), AssistantTurn(r)>>]
            /\ sessions' = [sessions EXCEPT ![sessionId[r]] = SaveTarget(r)]
       ELSE UNCHANGED <<heap, sessions>>
    /\ UNCHANGED <<variant, nChunks, message, sessionId, history,
                   prompt, before, buffer, emitted, malformed, query, providerCalls,
                   searchCalls, followUpCalls>>

\* The stream throws while it is iterated.
StreamError(r) ==
    /\ UNCHANGED <<embedVars, loadVars>>
    /\ pc[r] = "streaming"
    /\ Catch(r)
    /\ UNCHANGED <<variant, sessions, heap, nChunks, message, sessionId, history,
                   prompt, before, buffer, emitted, malformed, query, providerCalls,
                   searchCalls, followUpCalls>>

\* ------------------------------------------------------ POST /embed-token
EmbedVariants == {"lambda", "express", "expressFirst", "expressOld"}
EReqs == 1..EmbedReqs
AuthTokens == {Undefined, EmptyStr, JsStr(<<"tok">>)}

MissingAuthToken == "{\"error\":\"Missing 'authToken' in request body\"}"
EmbedFailed == "{\"error\":\"Failed to get embed token\"}"
EmbedFailedOld == "{\"error\":\"Failed to fetch Embed Token\"}"
InternalError == "{\"error\":\"Internal server error\"}"

\* What the BI service answers: a status, a body, and whether the body arrives
\* whole and parses (response.text() / response.json() resolve).
NoAnswer == [status |-> 0, body |-> "", readable |-> FALSE]
Answers ==
    [status : {200, 401, 503},
     body : {"{\"token\":\"A\"}", "{\"error\":{\"code\":\"TokenExpired\"}}"},
     readable : BOOLEAN]
\* response.ok
IsOk(a) == a.status >= 200 /\ a.status <= 299

\* the lambda variant alone checks the token before the outbound call
ChecksAuthToken(v) == v = "lambda"

\* a handler that passes the upstream body on
EmbedErrorBodyEcho(v, a) == a.body
\* the body of the 500 response to an upstream non-success answer a
EmbedErrorBody(v, a) == IF v = "expressOld" THEN EmbedFailedOld ELSE EmbedFailed

\* what an exception inside the handler turns into: the Express handlers'
\* own catch, or the lambda handler's outer catch
EmbedThrown(v) ==
    CASE v = "lambda" -> InternalError
      [] v = "expressOld" -> EmbedFailedOld
      [] OTHER -> EmbedFailed

EmbedInit ==
    /\ embedVariant \in EmbedVariants
    /\ epc = [e \in EReqs |-> "idle"]
    /\ authToken = [e \in EReqs |-> Undefined]
    /\ upstream = [e \in EReqs |-> NoAnswer]
    /\ fetchCalls = [e \in EReqs |-> 0]
    /\ eStatus = [e \in EReqs |-> 0]
    /\ eBody = [e \in EReqs |-> ""]

\* the handler up to `await fetch(...)`
EmbedReceive(e, t) ==
    /\ UNCHANGED <<chatVars, loadVars>>
    /\ epc[e] = "idle"
    /\ IF e = 1 THEN TRUE ELSE epc[e - 1] # "idle"
    /\ authToken' = [authToken EXCEPT ![e] = t]
    /\ IF ChecksAuthToken(embedVariant) /\ ~Truthy(t)
       THEN /\ eStatus' = [eStatus EXCEPT ![e] = 400]
            /\ eBody' = [eBody EXCEPT ![e] = MissingAuthToken]
            /\ epc' = [epc EXCEPT ![e] = "done"]
            /\ UNCHANGED fetchCalls
       ELSE /\ fetchCalls' = [fetchCalls EXCEPT ![e] = @ + 1]
            /\ epc' = [epc EXCEPT ![e] = "awaitFetch"]
            /\ UNCHANGED <<eStatus, eBody>>
    /\ UNCHANGED <<embedVariant, upstream>>

\* fetch resolves with the answer a, and the handler runs to its end
EmbedAnswer(e, a) ==
    /\ UNCHANGED <<chatVars, loadVars>>
    /\ epc[e] = "awaitFetch"
    /\ upstream' = [upstream EXCEPT ![e] = a]
    /\ epc' = [epc EXCEPT ![e] = "done"]
    /\ IF IsOk(a)
       THEN IF a.readable
            THEN /\ eStatus' = [eStatus EXCEPT ![e] = 200]
                 /\ eBody' = [eBody EXCEPT ![e] = a.body]
            ELSE /\ eStatus' = [eStatus EXCEPT ![e] = 500]
                 /\ eBody' = [eBody EXCEPT ![e] = EmbedThrown(embedVariant)]
       ELSE /\ eStatus' = [eStatus EXCEPT ![e] = 500]
            /\ eBody' = [eBody EXCEPT ![e] =
                            IF embedVariant = "lambda" /\ ~a.readable
                            THEN EmbedThrown(embedVariant)
                            ELSE EmbedErrorBody(embedVariant, a)]
    /\ UNCHANGED <<embedVariant, authToken, fetchCalls>>

\* fetch rejects (no answer at all)
EmbedFetchReject(e) ==
    /\ UNCHANGED <<chatVars, loadVars>>
    /\ epc[e] = "awaitFetch"
    /\ epc' = [epc EXCEPT ![e] = "done"]
    /\ eStatus' = [eStatus EXCEPT ![e] = 500]
    /\ eBody' = [eBody EXCEPT ![e] = EmbedThrown(embedVariant)]
    /\ UNCHANGED <<embedVariant, authToken, upstream, fetchCalls>>

\* ------------------------------------------------------------ loadDataset
NL == "\n"
Field(s) == JsStr(s)
Row(id, name, type, tasks, fm, year) ==
    [INFRA_ID |-> id, NAME |-> name, AI_TYPE |-> type, TASKS |-> tasks,
     FOUNDATIONAL_MODEL |-> fm, YEAR_LAUNCHED |-> year]
\* rows as csv-parse (columns: true, trim: true) may return them: every value
\* a string, or undefined where the header has no such column
RowSamples ==
    {Row(Field(<<"1">>), Field(<<"n">>), Field(<<"t">>), Field(<<"k">>),
         Field(<<"m">>), Field(<<"y">>)),
     Row(Field(<<"0">>), Field(<<"n">>), Field(<<"t">>), Field(<<"k">>),
         Undefined, Undefined),
     Row(Field(<<"2">>), Field(<<"n">>), Field(<<"t">>), Field(<<"k", NL, "l">>),
         Field(<<"m">>), Field(<<"y">>)),
     Row(EmptyStr, Field(<<"n">>), Field(<<"t">>), Field(<<"k">>),
         Field(<<"m">>), Field(<<"y">>)),
     Row(Field(<<"3">>), EmptyStr, Field(<<"t">>), Field(<<"k">>),
         Field(<<"m">>), Field(<<"y">>)),
     Row(Field(<<"4">>), Field(<<"n">>), EmptyStr, Field(<<"k">>),
         Field(<<"m">>), Field(<<"y">>)),
     Row(Field(<<"5">>), Field(<<"n">>), Field(<<"t">>), Undefined,
         Field(<<"m">>), Field(<<"y">>))}

\* a filter that forgets TASKS
KeepRowNoTasks(r) == Truthy(r.INFRA_ID) /\ Truthy(r.NAME) /\ Truthy(r.AI_TYPE)
\* (r) => r["INFRA_ID"] && r["NAME"] && r["AI_TYPE"] && r["TASKS"]
KeepRow(r) ==
    Truthy(r.INFRA_ID) /\ Truthy(r.NAME) /\ Truthy(r.AI_TYPE) /\ Truthy(r.TASKS)

\* `INFRA_ID: ${r.INFRA_ID} | NAME: ${r.NAME} | ... | YEAR_LAUNCHED: ${r.YEAR_LAUNCHED}`
RenderRow(r) ==
    <<"INFRA_ID: ">> \o r.INFRA_ID.val \o <<" | NAME: ">> \o r.NAME.val
    \o <<" | AI_TYPE: ">> \o r.AI_TYPE.val \o <<" | TASKS: ">> \o r.TASKS.val
    \o <<" | FOUNDATIONAL_MODEL: ">> \o r.FOUNDATIONAL_MODEL.val
    \o <<" | YEAR_LAUNCHED: ">> \o r.YEAR_LAUNCHED.val

\* rows.map(RenderRow).join("\n")
RECURSIVE JoinRows(_)
JoinRows(rows) ==
    IF rows = <<>> THEN <<>>
    ELSE IF Len(rows) = 1 THEN RenderRow(rows[1])
    ELSE RenderRow(rows[1]) \o <<NL>> \o JoinRows(Tail(rows))

LoadInit ==
    /\ lpc = "parse"
    /\ parsed = <<>>
    /\ dataset = <<>>
    /\ fullDatasetDump = <<>>

\* the file holds one more row
ParseRow(row) ==
    /\ UNCHANGED <<chatVars, embedVars>>
    /\ lpc = "parse"
    /\ parsed' = Append(parsed, row)
    /\ UNCHANGED <<lpc, dataset, fullDatasetDump>>

\* loadDataset() on a file that reads and parses
LoadDataset ==
    /\ UNCHANGED <<chatVars, embedVars>>
    /\ lpc = "parse"
    /\ dataset' = SelectSeq(parsed, KeepRow)
    /\ fullDatasetDump' = JoinRows(SelectSeq(parsed, KeepRow))
    /\ lpc' = "loaded"
    /\ UNCHANGED parsed

\* loadDataset() when readFileSync or parse throws: logged, nothing assigned
LoadFails ==
    /\ UNCHANGED <<chatVars, embedVars>>
    /\ lpc = "parse"
    /\ lpc' = "failed"
    /\ UNCHANGED <<parsed, dataset, fullDatasetDump>>

\* ---------------------------------------------------------- specifications
\* One stream in detail: every handler variant, every message, every chunk.
Init == ChatInit /\ EmbedInit /\ embedVariant = "lambda" /\ LoadInit

Next ==
    \/ \E r \in 1..StreamReqs, m \in Messages, s \in Sids, k \in BOOLEAN :
           \* session ids are interchangeable: the first request uses "s1"
           (r = 1 => s = "s1") /\ ChatReceive(r, m, s, k)
    \/ \E r \in 1..StreamReqs : CreateResolve(r)
    \/ \E r \in 1..StreamReqs : CreateReject(r)
    \/ \E r \in 1..StreamReqs, c \in Chunks :
           nChunks < MaxChunks /\ StreamChunk(r, c)
    \/ \E r \in 1..StreamReqs : SearchOk(r)
    \/ \E r \in 1..StreamReqs : SearchFail(r)
    \/ \E r \in 1..StreamReqs, f \in Finals : FollowUpOk(r, f)
    \/ \E r \in 1..StreamReqs : FollowUpFail(r)
    \/ \E r \in 1..StreamReqs : StreamEnd(r)
    \/ \E r \in 1..StreamReqs : StreamError(r)

Spec == Init /\ [][Next]_vars

\* The session-keeping handler with every pending call of a request
\* eventually settling: the provider stream yields, ends or throws, a search
\* or summarization call resolves or rejects.
LiveMessages == {EmptyStr, JsStr(<<"hi">>)}
LiveChunks ==
    {TextChunk(<<"a">>), TextChunk(<<"b">>),
     [token |-> <<"a">>, tool |-> SearchCall(ArgsOk)],
     [token |-> <<>>, tool |-> SearchCall(ArgsCut)]}

Settle(r) ==
    \/ CreateResolve(r)
    \/ CreateReject(r)
    \/ \E c \in LiveChunks : nChunks < MaxChunks /\ StreamChunk(r, c)
    \/ SearchOk(r)
    \/ SearchFail(r)
    \/ \E f \in Finals : FollowUpOk(r, f)
    \/ FollowUpFail(r)
    \/ StreamEnd(r)
    \/ StreamError(r)

InitLive == Init /\ variant = "session"

NextLive ==
    \/ \E r \in 1..StreamReqs, m \in LiveMessages, s \in Sids :
           (r = 1 => s = "s1") /\ ChatReceive(r, m, s, TRUE)
    \/ \E r \in 1..StreamReqs : Settle(r)

SpecLive == InitLive /\ [][NextLive]_vars /\ \A r \in 1..StreamReqs : WF_vars(Settle(r))

\* Concurrent requests against the session-keeping handler.
InitRace == Init /\ variant = "session"

NextRace ==
    \/ \E r \in 1..NumReqs, m \in RaceMessages, s \in Sids :
           \* session ids are interchangeable: the first request uses "s1"
           (r = 1 => s = "s1") /\ ChatReceive(r, m, s, TRUE)
    \/ \E r \in 1..NumReqs : CreateResolve(r)
    \/ \E r \in 1..NumReqs : CreateReject(r)
    \/ \E r \in 1..NumReqs, c \in RaceChunkSet :
           nChunks < RaceChunks /\ StreamChunk(r, c)
    \/ \E r \in 1..NumReqs : SearchOk(r)
    \/ \E r \in 1..NumReqs : SearchFail(r)
    \/ \E r \in 1..NumReqs, f \in Finals : FollowUpOk(r, f)
    \/ \E r \in 1..NumReqs : FollowUpFail(r)
    \/ \E r \in 1..NumReqs : StreamEnd(r)
    \/ \E r \in 1..NumReqs : StreamError(r)

SpecRace == InitRace /\ [][NextRace]_vars

\* More concurrent requests: some begin on a new session, the others after its
\* history was first stored.
NextShared ==
    \/ \E r \in Reqs, m \in RaceMessages, s \in Sids :
           \* session ids are interchangeable: the first request uses "s1"
           (r = 1 => s = "s1") /\ ChatReceive(r, m, s, TRUE)
    \/ \E r \in Reqs : CreateResolve(r)
    \/ \E r \in Reqs : CreateReject(r)
    \/ \E r \in Reqs, c \in RaceChunkSet :
           nChunks < RaceChunks /\ StreamChunk(r, c)
    \/ \E r \in Reqs : SearchOk(r)
    \/ \E r \in Reqs : SearchFail(r)
    \/ \E r \in Reqs, f \in Finals : FollowUpOk(r, f)
    \/ \E r \in Reqs : FollowUpFail(r)
    \/ \E r \in Reqs : StreamEnd(r)
    \/ \E r \in Reqs : StreamError(r)

SpecShared == InitRace /\ [][NextShared]_vars

\* The /embed-token handlers.
InitEmbed == ChatInit /\ variant = "session" /\ EmbedInit /\ LoadInit

NextEmbed ==
    \/ \E e \in EReqs, t \in AuthTokens : EmbedReceive(e, t)
    \/ \E e \in EReqs, a \in Answers : EmbedAnswer(e, a)
    \/ \E e \in EReqs : EmbedFetchReject(e)

SpecEmbed == InitEmbed /\ [][NextEmbed]_vars

\* loadDataset at process start.
InitLoad == InitEmbed /\ embedVariant = "lambda"

NextLoad ==
    \/ \E row \in RowSamples : Len(parsed) < MaxRows /\ ParseRow(row)
    \/ LoadDataset
    \/ LoadFails

SpecLoad == InitLoad /\ [][NextLoad]_vars

\* ------------------------------------------------------------- properties
Normal(r) == exit[r] = "normal"
Stored(s) == IF sessions[s] = NoObj THEN <<>> ELSE heap[sessions[s]]
Adjacent(seq, a, b) == \E i \in 1..(Len(seq) - 1) : seq[i] = a /\ seq[i + 1] = b
HasTurns(seq, r) == Adjacent(seq, UserTurn(r), AssistantTurn(r))
Last(seq) == seq[Len(seq)]

\* a fragment that a tool invocation or the catch block wrote
IsInline(frag) == frag # <<>> /\ frag[1] = "\n\n"
IsText(frag) == ~IsInline(frag)

\* C1: of two same-session requests, the second arriving after the first has
\* completed normally, the second's prompt holds, between the system turn and
\* the new user turn, the first's user message followed by its reply.
C1_SequentialHistory ==
    \A r1, r2 \in Reqs :
        (r1 \in before[r2] /\ sessionId[r1] = sessionId[r2] /\ providerCalls[r2] > 0)
        => HasTurns(SubSeq(prompt[r2], 2, Len(prompt[r2]) - 1), r1)

\* C2: when a request completes its stream, the text tokens were written in
\* the order emitted, and the concatenation of everything written equals the
\* assistant reply stored in the session history.
C2_WrittenEqualsReply ==
    \A r \in Reqs :
        (variant = "session" /\ Normal(r))
        => /\ SelectSeq(written[r], IsText) = emitted[r]
           /\ \E i \in DOMAIN heap[history[r]] :
                  /\ heap[history[r]][i].req = r
                  /\ heap[history[r]][i].role = "assistant"
                  /\ heap[history[r]][i].content.val = Concat(written[r])

\* C3: a request that fails in the provider call or stream gets exactly one
\* failure response: the 500 JSON payload and no marker when nothing had been
\* written, the inline marker and no JSON payload when something had.
C3_ExclusiveFailure ==
    \A r \in Reqs :
        (variant = "session" /\ exit[r] = "catch")
        => \/ /\ written[r] = <<>>
              /\ status[r] = 500 /\ json[r] = StreamFailed /\ ended[r]
           \/ /\ Len(written[r]) >= 2
              /\ Last(written[r]) = Marker
              /\ \A i \in 1..(Len(written[r]) - 1) : written[r][i] # Marker
              /\ status[r] = 200 /\ json[r] = "none" /\ ended[r]
C3_MidStreamFailure ==
    \E r \in Reqs :
        /\ variant = "session" /\ exit[r] = "catch"
        /\ Len(written[r]) >= 2 /\ Last(written[r]) = Marker /\ json[r] = "none"

\* C4: two same-session requests that both looked the history up before either
\* stored it hold different arrays; once both have completed normally the
\* stored history lacks the turns of one of them.
C4_LostUpdate ==
    \A r1, r2 \in Reqs :
        (/\ r1 # r2 /\ Normal(r1) /\ Normal(r2)
         /\ sessionId[r1] = sessionId[r2]
         /\ history[r1] = r1 /\ history[r2] = r2)
        => ~(HasTurns(Stored(sessionId[r1]), r1) /\ HasTurns(Stored(sessionId[r1]), r2))
C4_Race ==
    \E r1, r2 \in Reqs :
        /\ r1 # r2 /\ Normal(r1) /\ Normal(r2)
        /\ sessionId[r1] = sessionId[r2]
        /\ history[r1] = r1 /\ history[r2] = r2
        /\ \A r \in Reqs : pc[r] \in {"idle", "done"}
        /\ ~HasTurns(Stored(sessionId[r1]), r1)
        /\ HasTurns(Stored(sessionId[r1]), r2)

\* C5: a request whose message is "" or missing gets a 400 response, the
\* provider is never contacted for it, and the session store is untouched.
C5_EmptyRejected ==
    \A r \in Reqs :
        (pc[r] # "idle" /\ message[r] \in {Undefined, EmptyStr})
        => /\ pc[r] = "done" /\ status[r] = 400 /\ ended[r]
           /\ json[r] \in {MissingMessage, InvalidMessage}
           /\ providerCalls[r] = 0 /\ prompt[r] = <<>>
           /\ \A s \in Sids : \A i \in DOMAIN Stored(s) : Stored(s)[i].req # r
           /\ \A o \in Reqs : \A i \in DOMAIN heap[o] : heap[o][i].req # r
C5_EmptyStringRejected ==
    \E r \in Reqs :
        /\ variant = "session" /\ pc[r] = "done" /\ message[r] = EmptyStr
        /\ status[r] = 400

\* C6: a request whose message is not a string is rejected before any call to
\* the provider, in every variant of the handler.
C6_NonStringRejected ==
    \A r \in Reqs :
        (pc[r] # "idle" /\ TypeOf(message[r]) # "string")
        => providerCalls[r] = 0 /\ status[r] = 400

\* C7: an /embed-token request without authToken gets a 400 response and no
\* outbound call is made, in every variant of the handler.
C7_NoTokenNoCall ==
    \A e \in EReqs :
        (epc[e] # "idle" /\ authToken[e] = Undefined)
        => fetchCalls[e] = 0 /\ eStatus[e] = 400

\* a finished request with an authToken that the BI service refused
Refused(e) ==
    /\ epc[e] = "done" /\ Truthy(authToken[e])
    /\ upstream[e] # NoAnswer /\ ~IsOk(upstream[e])
NonEmpty(v) == v.type = "string" /\ Len(v.val) > 0
HasAllFour(r) ==
    NonEmpty(r.INFRA_ID) /\ NonEmpty(r.NAME) /\ NonEmpty(r.AI_TYPE) /\ NonEmpty(r.TASKS)
RECURSIVE Complete(_)
Complete(rows) ==
    IF rows = <<>> THEN <<>>
    ELSE (IF HasAllFour(Head(rows)) THEN <<Head(rows)>> ELSE <<>>)
         \o Complete(Tail(rows))
Breaks(str) == Cardinality({i \in DOMAIN str : str[i] = NL})
LineCount(str) == IF str = <<>> THEN 0 ELSE 1 + Breaks(str)
RECURSIVE BreaksInFields(_)
BreaksInFields(rows) ==
    IF rows = <<>> THEN 0
    ELSE Breaks(RenderRow(Head(rows))) + BreaksInFields(Tail(rows))
\* C9: loadDataset keeps exactly the parsed rows, in order, whose four required
\* fields are all non-empty, and the text rendering has one line per kept row.
C9_OneLinePerRecord ==
    lpc = "loaded"
    => /\ dataset = Complete(parsed)
       /\ LineCount(fullDatasetDump) = Len(dataset)
\* C9, amended: ... and the text rendering has one line per kept row plus one
\* for every line break inside a rendered field of a kept row.
C9_LinesPerRecord ==
    lpc = "loaded"
    => /\ dataset = Complete(parsed)
       /\ (\A i \in DOMAIN parsed : HasAllFour(parsed[i])) => Len(dataset) = Len(parsed)
       /\ LineCount(fullDatasetDump) = Len(dataset) + BreaksInFields(dataset)
C9_RowExcluded ==
    /\ lpc = "loaded"
    /\ Len(parsed) = 3 /\ Len(dataset) = 2
    /\ BreaksInFields(dataset) = 0
    /\ LineCount(fullDatasetDump) = 2

Count(seq, P(_)) == Len(SelectSeq(seq, P))
\* what holds of a step in which request r receives such a chunk
SkipStep(r) ==
    /\ searchCalls'[r] = searchCalls[r]
    /\ followUpCalls'[r] = followUpCalls[r]
    /\ providerCalls'[r] = providerCalls[r]
    /\ written'[r] = written[r]
                     \o SubSeq(emitted'[r], Len(emitted[r]) + 1, Len(emitted'[r]))
    /\ buffer'[r] = buffer[r]
                    \o Concat(SubSeq(emitted'[r], Len(emitted[r]) + 1, Len(emitted'[r])))
    /\ pc'[r] = "streaming" /\ exit'[r] = "none" /\ ~ended'[r]
\* what holds of a stream that carried such a chunk
Relayed(r) ==
    /\ SelectSeq(written[r], IsText) = emitted[r]
    /\ Count(written[r], IsInline)
           <= searchCalls[r] + (IF exit[r] = "catch" THEN 1 ELSE 0)
    /\ followUpCalls[r] <= searchCalls[r]
    /\ Normal(r) => ended[r] /\ HasTurns(heap[history[r]], r)
\* C10: a chunk whose "search" arguments fail to parse triggers no web search
\* and no summarization and writes nothing of its own; the text token it
\* carries is relayed, the loop goes on to the later chunks, and the handler
\* then saves the session and ends the response.
C10_ParseFailureSkipped ==
    /\ [](\A r \in Reqs : (variant = "session" /\ malformed[r] > 0) => Relayed(r))
    /\ [][\A r \in Reqs :
              (variant = "session" /\ malformed'[r] > malformed[r]) => SkipStep(r)]_vars
C10_SkippedAndRelayed ==
    \E r \in Reqs :
        /\ variant = "session" /\ Normal(r)
        /\ malformed[r] = 1 /\ nChunks = 2
        /\ emitted[r] = <<<<"a">>, <<"b">>>>
        /\ written[r] = <<<<"a">>, <<"b">>>>
        /\ searchCalls[r] = 0 /\ followUpCalls[r] = 0
        /\ HasTurns(Stored(sessionId[r]), r)

IsApology(frag) == frag = Apology
IsMarker(frag) == frag = Marker
\* a step in which the web search or the summarization of request r fails
ToolFails(r) ==
    \/ pc[r] = "awaitSearch" /\ pc'[r] \notin {"awaitSearch", "awaitFollowUp"}
    \/ pc[r] = "awaitFollowUp" /\ pc'[r] # "awaitFollowUp" /\ buffer'[r] = buffer[r]
\* what holds of such a step: the apology is written and the loop goes on
ApologyStep(r) ==
    /\ written'[r] = Append(written[r], Apology)
    /\ pc'[r] = "streaming" /\ exit'[r] = "none" /\ ~ended'[r]
    /\ status'[r] = 200 /\ json'[r] = "none"
    /\ buffer'[r] = buffer[r]
\* what holds of a stream in which an apology was written
Degraded(r) ==
    /\ SelectSeq(written[r], IsText) = emitted[r]
    /\ Normal(r) => /\ ended[r] /\ status[r] = 200 /\ json[r] = "none"
                    /\ Count(written[r], IsMarker) = 0
                    /\ HasTurns(heap[history[r]], r)
\* C11: a failing web search or summarization call writes the inline apology and
\* leaves the response open and the loop running; the later chunks are relayed,
\* and when the stream ends the user message and the accumulated reply are
\* appended to the session history and the response ends without the
\* stream-failure marker and without a 500 payload.
C11_ToolFailureDegrades ==
    /\ [](\A r \in Reqs :
              (variant = "session" /\ Count(written[r], IsApology) > 0) => Degraded(r))
    /\ [][\A r \in Reqs : (variant = "session" /\ ToolFails(r)) => ApologyStep(r)]_vars
C11_ApologyThenRelay ==
    \E r \in Reqs :
        /\ variant = "session" /\ Normal(r) /\ ended[r]
        /\ written[r] = <<<<"a">>, Apology, <<"b">>>>
        /\ searchCalls[r] = 1
        /\ Stored(sessionId[r]) = <<UserTurn(r), AssistantTurn(r)>>
        /\ buffer[r] = <<"a", "b">>

\* the three ways a response is terminated
EndedNormally(r) ==
    exit[r] = "normal" /\ status[r] = 200 /\ json[r] = "none"
    /\ Count(written[r], IsMarker) = 0
EndedWithPayload(r) ==
    exit[r] = "catch" /\ status[r] = 500 /\ json[r] = StreamFailed
    /\ Count(written[r], IsMarker) = 0
EndedWithMarker(r) ==
    exit[r] = "catch" /\ status[r] = 200 /\ json[r] = "none"
    /\ Count(written[r], IsMarker) = 1 /\ Last(written[r]) = Marker
Validated(r) == variant = "session" /\ providerCalls[r] > 0
\* C12: a request that passed validation has its response open while a call
\* of it is pending, ended in exactly one of the three ways once the handler
\* is through, never touched again after it ended, and, every pending call
\* settling, it does end.
C12_TerminatesOnce ==
    /\ [](\A r \in Reqs :
              Validated(r)
              => /\ ended[r] <=> pc[r] = "done"
                 /\ ended[r] => \/ EndedNormally(r)
                                \/ EndedWithPayload(r)
                                \/ EndedWithMarker(r))
    /\ [][\A r \in Reqs :
              (Validated(r) /\ ended[r])
              => /\ ended'[r] /\ exit'[r] = exit[r] /\ written'[r] = written[r]
                 /\ status'[r] = status[r] /\ json'[r] = json[r]]_vars
    /\ \A r \in 1..StreamReqs : Validated(r) ~> ended[r]
C12_MarkerAfterSummary ==
    \E r \in Reqs :
        /\ Validated(r) /\ ended[r] /\ EndedWithMarker(r)
        /\ searchCalls[r] = 1 /\ followUpCalls[r] = 1
        /\ Len(written[r]) = 3

\* a request that found a stored history when it looked the session up
FoundStored(r) == history[r] # NoObj /\ history[r] # r
\* the turns it found there
Earlier(r) == SubSeq(prompt[r], 2, Len(prompt[r]) - 1)
IsPrefix(a, b) == Len(a) <= Len(b) /\ SubSeq(b, 1, Len(a)) = a
Quiet == \A r \in Reqs : pc[r] \in {"idle", "done"}
\* C13: of concurrent same-session requests that each found a stored history
\* at lookup and completed normally, the stored history holds, once no request
\* is in flight, the user/assistant pair of every one.
C13_SharedListKeepsAll ==
    \A r1, r2 \in Reqs :
        (/\ r1 # r2 /\ sessionId[r1] = sessionId[r2]
         /\ FoundStored(r1) /\ FoundStored(r2)
         /\ r1 \notin before[r2] /\ r2 \notin before[r1]
         /\ Normal(r1) /\ Normal(r2) /\ Quiet)
        => /\ IsPrefix(Earlier(r1), Stored(sessionId[r1]))
           /\ HasTurns(Stored(sessionId[r1]), r1)
           /\ HasTurns(Stored(sessionId[r1]), r2)

\* seq is a sequence of user/assistant pairs, each pair of one request
Paired(seq) ==
    /\ Len(seq) % 2 = 0
    /\ \A i \in DOMAIN seq :
           i % 2 = 1
           => /\ seq[i].role = "user" /\ seq[i + 1].role = "assistant"
              /\ seq[i].req \in Reqs /\ seq[i + 1].req = seq[i].req
              /\ seq[i] = UserTurn(seq[i].req)
              /\ seq[i + 1] = AssistantTurn(seq[i].req)
\* C14: every history stored in the session map is a sequence of pairs, a user
\* turn followed by the assistant reply of the same request.
C14_StoredAlternates == \A s \in Sids : Paired(Stored(s))
C14_TwoPairs ==
    \E s \in Sids :
        /\ Len(Stored(s)) = 4
        /\ Stored(s)[1].req # Stored(s)[3].req
        /\ \E r \in Reqs : sessionId[r] = s /\ pc[r] \notin {"idle", "done"}

Failed(r) == exit[r] \in {"reject", "catch"}
\* no array holds a turn of request r
Unrecorded(r) == \A o \in Reqs : \A i \in DOMAIN heap[o] : heap[o][i].req # r
\* C15: the step in which a request is answered with a failure (the 400 of a
\* rejected message, the 500 payload, or the inline marker) changes neither
\* the session map nor any history, and no history ever holds a turn of a
\* request that failed, whatever was streamed to its caller before.
C15_FailureLeavesStore ==
    /\ [](\A r \in Reqs : Failed(r) => Unrecorded(r))
    /\ [][\A r \in Reqs :
              (~Failed(r) /\ Failed(r)') => (sessions' = sessions /\ heap' = heap)]_vars
C15_FailedAfterStreaming ==
    \E r1, r2 \in Reqs :
        /\ r1 # r2 /\ sessionId[r1] = sessionId[r2]
        /\ Normal(r1) /\ r1 \in before[r2]
        /\ exit[r2] = "catch" /\ Len(written[r2]) >= 2 /\ Last(written[r2]) = Marker
        /\ buffer[r2] # <<>>
        /\ Stored(sessionId[r2]) = <<UserTurn(r1), AssistantTurn(r1)>>
        /\ \E r3 \in Reqs : sessionId[r3] = sessionId[r2] /\ exit[r3] = "reject"

====
